---- MODULE Spec2Model ----
(***************************************************************************)
(* A model of the reddit-memes-api backend: the memes table and its upsert *)
(* (GET /memes/top), cursor pagination (GET /memes/allmemes), the Telegram *)
(* report endpoint (POST /memes/send-report), the health check, the        *)
(* scheduled report job and the access token of RedditService.             *)
(***************************************************************************)
EXTENDS Integers, Sequences, FiniteSets, TLC

VARIABLES
    memes,      \* the memes table: a set of rows (app/models.py)
    clock,      \* datetime.utcnow(), in microseconds
    walk,       \* a client following next_cursor over /memes/allmemes
    page,       \* the last response of get_meme_history, with what the query did
    env,        \* the process environment (os.getenv)
    call,       \* the request being served by the API, and then its outcome
    ingested,   \* history: the latest record ingested for each reddit_id
    wall        \* datetime.now(), the wall clock, in seconds

vars == <<memes, clock, walk, page, env, call, ingested, wall>>

(***************************************************************************)
(* Bounds of the model.                                                    *)
(***************************************************************************)
MaxPosts == 2

RedditIds == 1..MaxPosts
\* The feed shows a post in one of two versions (its score, title, ... change).
Versions == {0, 1}

(***************************************************************************)
(* Python's None, and sequences of one-character strings for str values.   *)
(***************************************************************************)
None == [tag |-> "None"]

Min(a, b) == IF a < b THEN a ELSE b

Digits == <<"0", "1", "2", "3", "4", "5", "6", "7", "8", "9">>

DigitValue(c) == CHOOSE d \in 0..9 : Digits[d + 1] = c

IsDigit(c) == \E d \in 0..9 : Digits[d + 1] = c

RECURSIVE NatStr(_)
NatStr(n) == IF n < 10 THEN <<Digits[n + 1]>>
             ELSE NatStr(n \div 10) \o <<Digits[(n % 10) + 1]>>

\* str(int)
IntStr(n) == IF n < 0 THEN <<"-">> \o NatStr(0 - n) ELSE NatStr(n)

RECURSIVE Pad(_, _)
Pad(s, w) == IF Len(s) >= w THEN s ELSE Pad(<<"0">> \o s, w)

\* str(datetime): isoformat(sep=" "); the fraction is printed only when the
\* microsecond is not zero.  The date and time of day are rendered here as
\* the decimal count of whole seconds.
DateTimeStrNoFraction(t) == NatStr(t \div 1000000)

DateTimeStr(t) ==
    IF t % 1000000 = 0 THEN NatStr(t \div 1000000)
    ELSE NatStr(t \div 1000000) \o <<".">> \o Pad(NatStr(t % 1000000), 6)

DateTimeColumns == {"created_at", "reddit_created_at"}

\* str(last_item[sort_by])
PyStr(sort_by, v) == IF sort_by \in DateTimeColumns THEN DateTimeStr(v) ELSE IntStr(v)

RECURSIVE NatVal(_)
NatVal(s) == IF s = <<>> THEN 0
             ELSE 10 * NatVal(SubSeq(s, 1, Len(s) - 1)) + DigitValue(s[Len(s)])

AllDigits(s) == s # <<>> /\ \A i \in 1..Len(s) : IsDigit(s[i])

RECURSIVE PadRight(_, _)
PadRight(s, w) == IF Len(s) >= w THEN s ELSE PadRight(s \o <<"0">>, w)

DotAt(s) == IF \E i \in 1..Len(s) : s[i] = "."
            THEN CHOOSE i \in 1..Len(s) : s[i] = "." /\ \A j \in 1..(i - 1) : s[j] # "."
            ELSE 0

\* The database's reading of a text parameter compared with an integer column.
SqlInt(s) ==
    IF s # <<>> /\ s[1] = "-" /\ AllDigits(Tail(s)) THEN [ok |-> TRUE, val |-> 0 - NatVal(Tail(s))]
    ELSE IF AllDigits(s) THEN [ok |-> TRUE, val |-> NatVal(s)]
    ELSE [ok |-> FALSE, val |-> 0]

\* The database's reading of a text parameter compared with a timestamp column.
SqlTimestamp(s) ==
    LET d == DotAt(s) IN
    IF d = 0
    THEN IF AllDigits(s) THEN [ok |-> TRUE, val |-> NatVal(s) * 1000000]
         ELSE [ok |-> FALSE, val |-> 0]
    ELSE LET whole == SubSeq(s, 1, d - 1)
             frac == SubSeq(s, d + 1, Len(s))
         IN IF AllDigits(whole) /\ AllDigits(frac) /\ Len(frac) <= 6
            THEN [ok |-> TRUE, val |-> NatVal(whole) * 1000000 + NatVal(PadRight(frac, 6))]
            ELSE [ok |-> FALSE, val |-> 0]

SqlCoerce(sort_by, s) == IF sort_by \in DateTimeColumns THEN SqlTimestamp(s) ELSE SqlInt(s)

(***************************************************************************)
(* The feed and the memes table.                                           *)
(***************************************************************************)
\* One record of the list fetch_top_memes returns: post rid as the feed shows
\* it at version v (scores, comment counts and titles change between fetches;
\* version 0 has no thumbnail, post_data.get('thumbnail') is None).
Post(rid, v) ==
    [reddit_id |-> rid,
     title |-> <<"title", rid, v>>,
     url |-> <<"url", rid, v>>,
     score |-> 12 * v,
     upvote_ratio |-> 90 + v,
     author |-> <<"author", rid>>,
     num_comments |-> 9 + v,
     permalink |-> <<"https://reddit.com", rid>>,
     reddit_created_at |-> rid * 60000000,
     thumbnail |-> IF v = 0 THEN <<"None">> ELSE <<"thumb", rid>>,
     is_video |-> (v = 1)]

FeedKeys == {"reddit_id", "title", "url", "score", "upvote_ratio", "author",
             "num_comments", "permalink", "reddit_created_at", "thumbnail", "is_video"}

Posts == {Post(rid, v) : rid \in RedditIds, v \in Versions}

\* models.Meme(**meme_data), with the id and the created_at default the
\* INSERT gives it.
NewRow(id, meme_data, now) ==
    [id |-> id,
     reddit_id |-> meme_data.reddit_id,
     title |-> meme_data.title,
     url |-> meme_data.url,
     score |-> meme_data.score,
     upvote_ratio |-> meme_data.upvote_ratio,
     created_at |-> now,
     reddit_created_at |-> meme_data.reddit_created_at,
     author |-> meme_data.author,
     num_comments |-> meme_data.num_comments,
     permalink |-> meme_data.permalink,
     thumbnail |-> meme_data.thumbnail,
     is_video |-> meme_data.is_video]

\* The times utcnow() takes in the model: half-second ticks from one second.
Times == {1000000 + k * 500000 : k \in 0..MaxPosts}

\* The tables ingestion can build: ids in insertion order, reddit_id unique,
\* created_at not decreasing with the id.
TablesOfSize(n) ==
    {{NewRow(i, Post(x[i][1], x[i][2]), x[i][3]) : i \in 1..n} :
        x \in {y \in [1..n -> RedditIds \X Versions \X Times] :
                 /\ \A i, j \in 1..n : i # j => y[i][1] # y[j][1]
                 /\ \A i, j \in 1..n : i < j => y[i][3] <= y[j][3]}}

PageTables == UNION {TablesOfSize(n) : n \in 0..MaxPosts}

(***************************************************************************)
(* MemeDBService.get_paginated_memes                                       *)
(***************************************************************************)
valid_sort_fields == {"created_at", "score", "reddit_created_at", "num_comments"}

\* b64encode(json.dumps(cursor_data).encode()).decode()
B64JsonEncode(cursor_data) == [tag |-> "b64json", data |-> cursor_data]

\* json.loads(b64decode(cursor.encode()).decode()) followed by .get(sort_by):
\* anything that is not the base64 of a JSON object raises.
CursorDecodes(cursor) == cursor.tag = "b64json"

CursorGet(cursor, sort_by) ==
    IF sort_by \in DOMAIN cursor.data
    THEN [some |-> TRUE, str |-> cursor.data[sort_by]]
    ELSE [some |-> FALSE, str |-> <<>>]

\* WHERE {sort_by} {op} :cursor
Matches(r, sort_by, order, bound) ==
    IF order = "desc" THEN r[sort_by] < bound ELSE r[sort_by] > bound

InOrder(a, b, order) == IF order = "desc" THEN a >= b ELSE a <= b

\* ORDER BY {sort_by} ASC|DESC: every order of the rows the database may
\* return; rows with equal sort values come in any order.
OrderedSeqs(rows, sort_by, order) ==
    {s \in [1..Cardinality(rows) -> rows] :
        /\ \A i, j \in 1..Cardinality(rows) : i # j => s[i] # s[j]
        /\ \A i, j \in 1..Cardinality(rows) :
              i < j => InOrder(s[i][sort_by], s[j][sort_by], order)}

NoResult == [raised |-> "", queried |-> FALSE, where |-> FALSE, bound |-> 0,
             items |-> <<>>, next_cursor |-> None, has_next |-> FALSE]

\* The page for one order of the rows the query returned.
PageOf(fetched, limit, sort_by, where, bound) ==
    LET has_next == Len(fetched) > limit
        items == SubSeq(fetched, 1, Min(limit, Len(fetched)))
    IN [raised |-> "", queried |-> TRUE, where |-> where, bound |-> bound,
        items |-> items,
        next_cursor |-> IF has_next /\ items # <<>>
                        THEN B64JsonEncode([k \in {sort_by} |->
                                            PyStr(sort_by, items[Len(items)][sort_by])])
                        ELSE None,
        has_next |-> has_next]

\* The results get_paginated_memes may produce: a page, or an exception.
get_paginated_memes(table, cursor, limit, sort_by, order) ==
    IF sort_by \notin valid_sort_fields
    THEN {[NoResult EXCEPT !.raised = "HTTPException400"]}
    ELSE IF cursor \notin {None, [tag |-> "empty"]} /\ ~CursorDecodes(cursor)
    THEN {[NoResult EXCEPT !.raised = "HTTPException400"]}
    ELSE LET cursor_value == IF cursor \in {None, [tag |-> "empty"]}
                             THEN [some |-> FALSE, str |-> <<>>]
                             ELSE CursorGet(cursor, sort_by)
             where == cursor_value.some /\ cursor_value.str # <<>>
             coerced == SqlCoerce(sort_by, cursor_value.str)
         IN IF where /\ ~coerced.ok
            THEN {[NoResult EXCEPT !.raised = "DataError", !.queried = TRUE,
                                   !.where = TRUE]}
            ELSE LET rows == IF where
                             THEN {r \in table : Matches(r, sort_by, order, coerced.val)}
                             ELSE table
                 IN {PageOf(SubSeq(s, 1, Min(limit + 1, Len(s))), limit, sort_by,
                            where, IF where THEN coerced.val ELSE 0) :
                        s \in OrderedSeqs(rows, sort_by, order)}

(***************************************************************************)
(* GET /memes/allmemes                                                     *)
(***************************************************************************)
MinLimit == 1
MaxLimitAllowed == 100

SortByPattern == {"created_at", "score", "reddit_created_at", "num_comments"}
OrderPattern == {"asc", "desc"}

Response(status, req, r) ==
    [status |-> status, req |-> req, raised |-> r.raised, queried |-> r.queried,
     where |-> r.where, bound |-> r.bound, items |-> r.items,
     next_cursor |-> r.next_cursor, has_next |-> r.has_next]

Request(cursor, limit, sort_by, order) ==
    [cursor |-> cursor, limit |-> limit, sort_by |-> sort_by, order |-> order]

\* The responses get_meme_history may give: the Query(...) declarations are
\* checked by the framework before the handler runs (422), and the handler
\* turns every exception of the service, HTTPException included, into a 500.
get_meme_history(table, cursor, limit, sort_by, order) ==
    LET req == Request(cursor, limit, sort_by, order) IN
    IF \/ limit < MinLimit \/ limit > MaxLimitAllowed
       \/ sort_by \notin SortByPattern
       \/ order \notin OrderPattern
    THEN {Response(422, req, NoResult)}
    ELSE {Response(IF r.raised # "" THEN 500 ELSE 200, req, r) :
            r \in get_paginated_memes(table, cursor, limit, sort_by, order)}

NoPage == Response(0, Request(None, 0, "", ""), NoResult)

NoValue == [some |-> FALSE, val |-> 0]

IdleWalk == [pc |-> "idle", sort_by |-> "", order |-> "", limit |-> 0,
             cursor |-> None, got |-> <<>>, sent |-> NoValue, last |-> NoValue]

\* Bounds on what the clients of the model ask for.
MaxLimit == 2

\* The client keeps the items of the page and the cursor for the next call.
Follow(w, resp) ==
    [w EXCEPT
        !.pc = IF resp.status # 200 THEN "failed"
               ELSE IF resp.has_next THEN "more" ELSE "done",
        !.cursor = resp.next_cursor,
        !.got = w.got \o resp.items,
        !.sent = w.last,
        !.last = IF resp.items = <<>> THEN NoValue
                 ELSE [some |-> TRUE, val |-> resp.items[Len(resp.items)][w.sort_by]]]

\* The first call of a walk: no cursor.
WalkStart ==
    /\ walk.pc = "idle"
    /\ \E sort_by \in SortByPattern, order \in OrderPattern, limit \in 1..MaxLimit :
         \E resp \in get_meme_history(memes, None, limit, sort_by, order) :
            /\ walk' = Follow([IdleWalk EXCEPT !.sort_by = sort_by, !.order = order,
                                               !.limit = limit], resp)
            /\ page' = resp
    /\ UNCHANGED <<memes, clock, env, call, ingested, wall>>

\* The next call of the walk: the next_cursor of the last page, same parameters.
WalkNext ==
    /\ walk.pc = "more"
    /\ \E resp \in get_meme_history(memes, walk.cursor, walk.limit, walk.sort_by,
                                    walk.order) :
            /\ walk' = Follow(walk, resp)
            /\ page' = resp
    /\ UNCHANGED <<memes, clock, env, call, ingested, wall>>

\* Cursors a client may send that no page issued.
ClientCursors ==
    {[tag |-> "empty"], [tag |-> "not_base64"], [tag |-> "not_json"],
     [tag |-> "json_list"],
     B64JsonEncode([k \in {"score"} |-> <<"1", "2">>]),
     B64JsonEncode([k \in {"score"} |-> <<"a">>]),
     B64JsonEncode([k \in {"created_at"} |-> <<"1">>])}

\* One call of the endpoint with parameters of the client's own making.
GetMemeHistory ==
    /\ walk.pc = "idle"
    /\ \E cursor \in ClientCursors \cup {None},
          limit \in {MinLimit - 1, MinLimit, MaxLimitAllowed + 1},
          sort_by \in {"score", "created_at", "title"},
          order \in {"desc", "DESC"} :
         \E resp \in get_meme_history(memes, cursor, limit, sort_by, order) :
            /\ page' = resp
            /\ walk' = [IdleWalk EXCEPT !.pc = "single"]
    /\ UNCHANGED <<memes, clock, env, call, ingested, wall>>

(***************************************************************************)
(* The environment and the request in progress.                            *)
(***************************************************************************)
Str(s) == [tag |-> "str", val |-> s]

\* Python truthiness of an Optional[str]: None and "" are false.
Truthy(x) == x.tag = "str" /\ x.val # ""

DefaultEnv == [TELEGRAM_BOT_TOKEN |-> Str("env-token"), TELEGRAM_CHAT_ID |-> Str("env-chat")]

IdleCall == [handler |-> "", pc |-> "idle"]

CallOver == call.pc \in {"idle", "done"}

NothingIngested == [rid \in RedditIds |-> None]

(***************************************************************************)
(* GET /memes/top                                                          *)
(***************************************************************************)
MaxBatch == 2

\* memes.sort(key=score, reverse=True): the list fetch_top_memes returns is
\* in descending order of score.
SortedByScore(s) == \A i, j \in 1..Len(s) : i < j => s[i].score >= s[j].score

Batches(limit) ==
    UNION {{s \in [1..n -> Posts] : SortedByScore(s)} : n \in 0..Min(limit, MaxBatch)}

\* for key, value in meme_data.items(): setattr(existing_meme, key, value)
SetAttrsScoreOnly(existing_meme, meme_data) ==
    [existing_meme EXCEPT !.score = meme_data.score]

SetAttrs(existing_meme, meme_data) ==
    [existing_meme EXCEPT
        !.reddit_id = meme_data.reddit_id,
        !.title = meme_data.title,
        !.url = meme_data.url,
        !.score = meme_data.score,
        !.upvote_ratio = meme_data.upvote_ratio,
        !.author = meme_data.author,
        !.num_comments = meme_data.num_comments,
        !.permalink = meme_data.permalink,
        !.reddit_created_at = meme_data.reddit_created_at,
        !.thumbnail = meme_data.thumbnail,
        !.is_video = meme_data.is_video]

\* The session of one call: the rows it has loaded (with the attributes set
\* on them) and the objects added to it; nothing is flushed before commit
\* (autoflush=False), so the lookup sees only the rows of the table.
OpenSession(table) == [rows |-> table, new |-> <<>>]

RECURSIVE StoreLoop(_, _)
StoreLoop(session, batch) ==
    IF batch = <<>> THEN session
    ELSE LET meme_data == Head(batch)
             existing == {r \in session.rows : r.reddit_id = meme_data.reddit_id}
         IN IF existing = {}
            THEN StoreLoop([session EXCEPT !.new = Append(@, meme_data)], Tail(batch))
            ELSE LET existing_meme == CHOOSE r \in existing : TRUE
                 IN StoreLoop([session EXCEPT !.rows =
                                  (@ \ {existing_meme}) \cup {SetAttrs(existing_meme, meme_data)}],
                              Tail(batch))

\* reddit_id is unique: the INSERTs of the flush violate it when two added
\* objects, or an added object and a row, share a reddit_id.
ViolatesUnique(table, new) ==
    \/ \E i, j \in 1..Len(new) : i # j /\ new[i].reddit_id = new[j].reddit_id
    \/ \E i \in 1..Len(new) : \E r \in table : r.reddit_id = new[i].reddit_id

\* The rows the INSERTs add: ids from the sequence (no row is ever deleted;
\* the values a failed INSERT uses up are not modelled, no handler reads the
\* id), created_at from utcnow() at each INSERT, which advances by ticks[i]
\* before the i-th.
RECURSIVE SumTo(_, _)
SumTo(ticks, i) == IF i = 0 THEN 0 ELSE SumTo(ticks, i - 1) + ticks[i]

Inserted(table, new, now, ticks) ==
    {NewRow(Cardinality(table) + i, new[i], now + SumTo(ticks, i)) : i \in 1..Len(new)}

\* db.commit() without a transaction around the flush: the statements before
\* the failing one stay.
CommitNoRollback(table, session, now, ticks, db_ok) ==
    IF ~db_ok
    THEN [ok |-> FALSE, table |-> session.rows]
    ELSE IF ViolatesUnique(table, session.new)
    THEN [ok |-> FALSE,
          table |-> session.rows \cup
                    {r \in Inserted(table, session.new, now, ticks) :
                        \A q \in Inserted(table, session.new, now, ticks) :
                            q.reddit_id = r.reddit_id => q.id >= r.id}]
    ELSE [ok |-> TRUE, table |-> session.rows \cup Inserted(table, session.new, now, ticks)]

\* db.commit(): flush the UPDATEs and INSERTs and commit them, or fail and
\* leave the table as it was (the transaction is rolled back when the session
\* is closed by get_db).
Commit(table, session, now, ticks, db_ok) ==
    IF ~db_ok \/ ViolatesUnique(table, session.new)
    THEN [ok |-> FALSE, table |-> table]
    ELSE [ok |-> TRUE, table |-> session.rows \cup Inserted(table, session.new, now, ticks)]

\* History: the record of each reddit_id in a batch is its last one.
RECURSIVE Latest(_, _)
Latest(latest, batch) ==
    IF batch = <<>> THEN latest
    ELSE Latest([latest EXCEPT ![Head(batch).reddit_id] = Head(batch)], Tail(batch))

\* The request arrives; limit is checked by the framework (ge=1, le=100).
TopReceive ==
    /\ CallOver
    /\ \E limit \in 0..MaxBatch :
         call' = IF limit < MinLimit \/ limit > MaxLimitAllowed
                 THEN [handler |-> "top", pc |-> "done", limit |-> limit, status |-> 422,
                       failure |-> "validation", before |-> memes, body |-> <<>>]
                 ELSE [handler |-> "top", pc |-> "fetching", limit |-> limit, status |-> 0,
                       failure |-> "", before |-> memes, body |-> <<>>]
    /\ UNCHANGED <<memes, clock, walk, page, env, ingested, wall>>

\* RedditService() or fetch_top_memes raises: the handler answers 500.
TopFetchFailed ==
    /\ call.handler = "top" /\ call.pc = "fetching"
    /\ call' = [call EXCEPT !.pc = "done", !.status = 500, !.failure = "fetch"]
    /\ UNCHANGED <<memes, clock, walk, page, env, ingested, wall>>

\* fetch_top_memes returns: the loop over the batch, the commit and the
\* response run without a further await.  An exception in the loop ("store")
\* or in the commit ("commit", or the unique constraint) is answered 500.
TopStore ==
    /\ call.handler = "top" /\ call.pc = "fetching"
    /\ \E batch \in Batches(call.limit), fault \in {"", "store", "commit"} :
         LET session == StoreLoop(OpenSession(memes), batch) IN
         \E ticks \in [1..Len(session.new) -> {0, 500000}] :
            LET done == IF fault = "store" THEN [ok |-> FALSE, table |-> memes]
                        ELSE Commit(memes, session, clock, ticks, fault = "") IN
            /\ memes' = done.table
            /\ clock' = IF done.ok THEN clock + SumTo(ticks, Len(session.new)) ELSE clock
            /\ call' = [call EXCEPT
                  !.pc = "done",
                  !.status = IF done.ok THEN 200 ELSE 500,
                  !.failure = IF done.ok THEN ""
                              ELSE IF fault # "" THEN fault
                              ELSE "duplicate",
                  !.body = batch]
            /\ ingested' = IF done.ok THEN Latest(ingested, batch) ELSE ingested
    /\ UNCHANGED <<walk, page, env, wall>>

InitIngest ==
    /\ memes = {}
    /\ clock = 1000000
    /\ walk = IdleWalk
    /\ page = NoPage
    /\ env = DefaultEnv
    /\ call = IdleCall
    /\ ingested = NothingIngested
    /\ wall = 0

NextIngest == TopReceive \/ TopFetchFailed \/ TopStore

SpecIngest == InitIngest /\ [][NextIngest]_vars

(***************************************************************************)
(* POST /memes/send-report and TelegramService.send_meme_report            *)
(***************************************************************************)
DefaultLimit == 20

IntOf(n) == [tag |-> "int", val |-> n]

\* The values the environment may hold for the Telegram credentials.
Envs ==
    [TELEGRAM_BOT_TOKEN : {None, Str("env-token")},
     TELEGRAM_CHAT_ID : {None, Str(""), Str("env-chat")}]

\* The bodies a client may send: none, or a MemeReportRequest.
Bodies ==
    {None} \cup
    [credentials : {None} \cup [bot_token : {None, Str(""), Str("body-token")},
                                chat_id : {None, Str("body-chat")}],
     limit : {None, IntOf(0), IntOf(1), IntOf(MaxBatch)}]

\* if request is None: request = MemeReportRequest()
RequestOf(body) == IF body = None THEN [credentials |-> None, limit |-> None] ELSE body

\* request.credentials.bot_token if request.credentials else TELEGRAM_BOT_TOKEN
\* (a credentials object is true whatever its fields hold).
Credential(request, environ, field, variable) ==
    IF request.credentials # None THEN request.credentials[field] ELSE environ[variable]

\* request.limit if request.limit else 20
LimitOf(request) ==
    IF request.limit # None /\ request.limit.val # 0 THEN request.limit.val ELSE DefaultLimit

NoResponse == [status |-> 0, message |-> "", using_env_credentials |-> FALSE, limit |-> 0]

ErrorResponse(status) == [NoResponse EXCEPT !.status = status]

\* The dict the handler returns.
AckResponse(request) ==
    [status |-> 200, message |-> "Meme report is being sent to Telegram",
     using_env_credentials |-> (request.credentials = None),
     limit |-> LimitOf(request)]

ReportCall(body) ==
    [handler |-> "report", pc |-> "received", body |-> body,
     bot_token |-> None, chat_id |-> None, limit |-> 0, memes |-> <<>>,
     response |-> NoResponse, task |-> "none", service |-> None, log |-> <<>>]

\* The handler up to its first await: the body is validated by the framework
\* (limit ge=1, le=100: 422), the credentials are chosen and checked; the
\* HTTPException(400) raised for a missing one is caught by the handler's own
\* except Exception and answered 500.
ReportValidated(c, environ) ==
    LET request == RequestOf(c.body)
        bot_token == Credential(request, environ, "bot_token", "TELEGRAM_BOT_TOKEN")
        chat_id == Credential(request, environ, "chat_id", "TELEGRAM_CHAT_ID")
    IN IF request.limit # None
          /\ (request.limit.val < MinLimit \/ request.limit.val > MaxLimitAllowed)
       THEN [c EXCEPT !.pc = "done", !.response = ErrorResponse(422)]
       ELSE IF ~Truthy(bot_token) \/ ~Truthy(chat_id)
       THEN [c EXCEPT !.pc = "done", !.bot_token = bot_token, !.chat_id = chat_id,
                      !.limit = LimitOf(request),
                      !.log = Append(@, "HTTPException400"),
                      !.response = ErrorResponse(500)]
       ELSE [c EXCEPT !.pc = "fetching", !.bot_token = bot_token, !.chat_id = chat_id,
                      !.limit = LimitOf(request)]

\* await telegram_service.send_meme_report(memes) in place of add_task: the
\* delivery would run before the handler returns.
AcknowledgedAfterDelivery(c, batch) ==
    [c EXCEPT !.pc = "background", !.memes = batch,
              !.service = [bot_token |-> c.bot_token, chat_id |-> c.chat_id],
              !.task = "queued",
              !.log = Append(@, "fetched")]

\* The feed fetch has returned: TelegramService(bot_token, chat_id), add_task,
\* and the acknowledgement is returned and sent; the task runs after that.
Acknowledged(c, batch) ==
    [c EXCEPT !.pc = "background", !.memes = batch,
              !.service = [bot_token |-> c.bot_token, chat_id |-> c.chat_id],
              !.task = "queued",
              !.response = AckResponse(RequestOf(c.body)),
              !.log = @ \o <<"fetched", "ack">>]

\* The feed fetch has raised: 500, and no task is added.
FetchFailed(c) ==
    [c EXCEPT !.pc = "done", !.response = ErrorResponse(500),
              !.log = Append(@, "fetch_failed")]

\* A requests.post of the task has raised: the task ends, logged.
DeliveryFailed(c) ==
    [c EXCEPT !.pc = "done", !.task = "failed", !.log = Append(@, "send_failed")]

\* The number of sendPhoto events in the log.
PhotosSent(log) == Cardinality({i \in 1..Len(log) : log[i] = "sendPhoto"})

\* A requests.post of the task has succeeded: the overview message first,
\* then one photo for each meme.
Delivered(c) ==
    LET kind == IF c.task = "queued" THEN "sendMessage" ELSE "sendPhoto"
        log == Append(c.log, kind)
        over == PhotosSent(log) = Len(c.memes)
    IN [c EXCEPT !.task = IF over THEN "done" ELSE "running",
                 !.pc = IF over THEN "done" ELSE "background",
                 !.log = log]

ReportReceive ==
    /\ CallOver
    /\ \E body \in Bodies : call' = ReportValidated(ReportCall(body), env)
    /\ UNCHANGED <<memes, clock, walk, page, env, ingested, wall>>

ReportFetchFailed ==
    /\ call.handler = "report" /\ call.pc = "fetching"
    /\ call' = FetchFailed(call)
    /\ UNCHANGED <<memes, clock, walk, page, env, ingested, wall>>

ReportAck ==
    /\ call.handler = "report" /\ call.pc = "fetching"
    /\ \E batch \in Batches(call.limit) : call' = Acknowledged(call, batch)
    /\ UNCHANGED <<memes, clock, walk, page, env, ingested, wall>>

TelegramSend ==
    /\ call.handler = "report" /\ call.pc = "background"
    /\ call' = Delivered(call)
    /\ UNCHANGED <<memes, clock, walk, page, env, ingested, wall>>

TelegramSendFailed ==
    /\ call.handler = "report" /\ call.pc = "background"
    /\ call' = DeliveryFailed(call)
    /\ UNCHANGED <<memes, clock, walk, page, env, ingested, wall>>

(***************************************************************************)
(* GET /health                                                             *)
(***************************************************************************)
Component(status) == [status |-> status]

HealthCall ==
    [handler |-> "health", pc |-> "checking",
     health_status |-> [status |-> "healthy",
                        components |-> [api |-> Component("healthy"),
                                        reddit_api |-> Component("unknown"),
                                        database |-> Component("unknown")]],
     ran |-> {}, failed |-> {}, http |-> 0]

\* A check that raises on failure instead of recording it: the checks after it
\* would not run.
CheckedOrRaise(c, component, ok) ==
    IF c.pc = "done" THEN c
    ELSE IF ok
    THEN [c EXCEPT !.health_status.components[component] = Component("healthy"),
                   !.ran = @ \cup {component}]
    ELSE [c EXCEPT !.health_status.components[component] = Component("unhealthy"),
                   !.health_status.status = "degraded",
                   !.ran = @ \cup {component},
                   !.failed = @ \cup {component},
                   !.pc = "done", !.http = 503]

\* One try/except of health_check: the component is healthy when the check
\* returns, unhealthy (and the whole degraded) when it raises.
Checked(c, component, ok) ==
    IF ok
    THEN [c EXCEPT !.health_status.components[component] = Component("healthy"),
                   !.ran = @ \cup {component}]
    ELSE [c EXCEPT !.health_status.components[component] = Component("unhealthy"),
                   !.health_status.status = "degraded",
                   !.ran = @ \cup {component},
                   !.failed = @ \cup {component}]

\* if health_status["status"] != "healthy": raise HTTPException(503)
HealthResponded(c) ==
    IF c.pc = "done" THEN c
    ELSE [c EXCEPT !.pc = "done",
                   !.http = IF c.health_status.status # "healthy" THEN 503 ELSE 200]

HealthReceive ==
    /\ CallOver
    /\ call' = HealthCall
    /\ UNCHANGED <<memes, clock, walk, page, env, ingested, wall>>

\* The feed check returns or raises; the database check and the response
\* follow without a further await.
HealthFinish ==
    /\ call.handler = "health" /\ call.pc = "checking"
    /\ \E reddit_ok \in BOOLEAN, db_ok \in BOOLEAN :
         call' = HealthResponded(Checked(Checked(call, "reddit_api", reddit_ok),
                                         "database", db_ok))
    /\ UNCHANGED <<memes, clock, walk, page, env, ingested, wall>>

InitApi ==
    /\ memes = {}
    /\ clock = 1000000
    /\ walk = IdleWalk
    /\ page = NoPage
    /\ env \in Envs
    /\ call = IdleCall
    /\ ingested = NothingIngested
    /\ wall = 0

NextApi ==
    \/ ReportReceive \/ ReportFetchFailed \/ ReportAck
    \/ TelegramSend \/ TelegramSendFailed
    \/ HealthReceive \/ HealthFinish

SpecApi == InitApi /\ [][NextApi]_vars

InitPage ==
    /\ memes \in PageTables
    /\ clock = 1000000
    /\ walk = IdleWalk
    /\ page = NoPage
    /\ env = DefaultEnv
    /\ call = IdleCall
    /\ ingested = NothingIngested
    /\ wall = 0

NextPage == WalkStart \/ WalkNext \/ GetMemeHistory

SpecPage == InitPage /\ [][NextPage]_vars

(***************************************************************************)
(* The scheduled report: init_scheduler and send_scheduled_report          *)
(***************************************************************************)
\* The wall clock stops after this many hours.
MaxHours == 24

\* CronTrigger(hour="0,8,16"): minute and second default to 0.
ScheduledHours == {0, 8, 16}

Hour(t) == (t \div 3600) % 24

OnTheHour(t) == t % 3600 = 0

\* fetch_top_memes(20)
ScheduledLimit == 20

\* The values the environment may hold for the credentials the job reads.
SchedEnvs ==
    [TELEGRAM_BOT_TOKEN : {None, Str("env-token")},
     TELEGRAM_CHAT_ID : {None, Str(""), Str("env-chat")},
     REDDIT_CLIENT_ID : {None, Str("client-id")},
     REDDIT_CLIENT_SECRET : {None, Str("client-secret")}]

\* A run the scheduler starts at time t; runs counts the runs started at t.
ScheduledRun(t, runs) ==
    [handler |-> "scheduled", pc |-> "started", fired_at |-> t, runs |-> runs,
     bot_token |-> None, chat_id |-> None, memes |-> <<>>,
     task |-> "none", outcome |-> "running", log |-> <<>>]

\* A job whose try had no except Exception: what is raised leaves the job.
NotCaught(c, e) ==
    [c EXCEPT !.pc = "done", !.outcome = "raised", !.log = Append(@, e)]

\* except Exception as e: logger.error(...): the job returns normally.
Caught(c, e) ==
    [c EXCEPT !.pc = "done", !.outcome = "logged", !.log = Append(@, e)]

\* The job up to its first await: the Telegram credentials are read from the
\* environment (a missing or empty one: log and return), then RedditService()
\* raises ValueError when a client credential is missing or empty.
JobStarted(c, environ) ==
    LET bot_token == environ.TELEGRAM_BOT_TOKEN
        chat_id == environ.TELEGRAM_CHAT_ID
    IN IF ~Truthy(bot_token) \/ ~Truthy(chat_id)
       THEN [c EXCEPT !.pc = "done", !.outcome = "returned",
                      !.log = Append(@, "missing_telegram")]
       ELSE IF ~(Truthy(environ.REDDIT_CLIENT_ID) /\ Truthy(environ.REDDIT_CLIENT_SECRET))
       THEN Caught([c EXCEPT !.bot_token = bot_token, !.chat_id = chat_id], "ValueError")
       ELSE [c EXCEPT !.pc = "fetching", !.bot_token = bot_token, !.chat_id = chat_id]

\* The token exchange or the feed request has raised inside async with.
JobFetchFailed(c) == Caught([c EXCEPT !.log = Append(@, "fetch")], "ClientError")

\* fetch_top_memes has returned: TelegramService(bot_token, chat_id) and the
\* delivery is awaited.
JobFetched(c, batch) ==
    [c EXCEPT !.pc = "delivering", !.memes = batch, !.task = "queued",
              !.log = Append(@, "fetch")]

\* A requests.post of send_meme_report has returned; after the last one the
\* job logs its success and returns.
JobDelivered(c) ==
    LET d == Delivered(c)
    IN [d EXCEPT !.pc = IF d.task = "done" THEN "done" ELSE "delivering",
                 !.outcome = IF d.task = "done" THEN "sent" ELSE @]

\* A requests.post has raised: send_meme_report logs and raises again.
JobDeliveryFailed(c) ==
    LET d == DeliveryFailed(c)
    IN Caught([d EXCEPT !.log = SubSeq(@, 1, Len(@) - 1)], "send_failed")

\* The trigger's fire time t has come and its run has not been started.
Due(c, t) ==
    /\ OnTheHour(t) /\ Hour(t) \in ScheduledHours
    /\ IF c.handler = "scheduled" THEN c.fired_at # t ELSE TRUE

\* The runs started at time t so far.
RunsAt(c, t) == IF c.handler = "scheduled" /\ c.fired_at = t THEN c.runs ELSE 0

\* The scheduler starts the job at its fire time.
SchedFire ==
    /\ CallOver /\ Due(call, wall)
    /\ call' = JobStarted(ScheduledRun(wall, RunsAt(call, wall) + 1), env)
    /\ UNCHANGED <<memes, clock, walk, page, env, ingested, wall>>

SchedFetchFailed ==
    /\ call.handler = "scheduled" /\ call.pc = "fetching"
    /\ call' = JobFetchFailed(call)
    /\ UNCHANGED <<memes, clock, walk, page, env, ingested, wall>>

SchedFetched ==
    /\ call.handler = "scheduled" /\ call.pc = "fetching"
    /\ \E batch \in Batches(ScheduledLimit) : call' = JobFetched(call, batch)
    /\ UNCHANGED <<memes, clock, walk, page, env, ingested, wall>>

SchedSend ==
    /\ call.handler = "scheduled" /\ call.pc = "delivering"
    /\ call' = JobDelivered(call)
    /\ UNCHANGED <<memes, clock, walk, page, env, ingested, wall>>

SchedSendFailed ==
    /\ call.handler = "scheduled" /\ call.pc = "delivering"
    /\ call' = JobDeliveryFailed(call)
    /\ UNCHANGED <<memes, clock, walk, page, env, ingested, wall>>

\* An hour passes while no run is in progress and none is due.
SchedTick ==
    /\ CallOver /\ ~Due(call, wall)
    /\ wall < MaxHours * 3600
    /\ wall' = wall + 3600
    /\ UNCHANGED <<memes, clock, walk, page, env, call, ingested>>

InitSched ==
    /\ memes = {}
    /\ clock = 1000000
    /\ walk = IdleWalk
    /\ page = NoPage
    /\ env \in SchedEnvs
    /\ call = IdleCall
    /\ ingested = NothingIngested
    /\ wall = 3600

NextSched ==
    \/ SchedFire \/ SchedFetchFailed \/ SchedFetched
    \/ SchedSend \/ SchedSendFailed \/ SchedTick

SpecSched == InitSched /\ [][NextSched]_vars

(***************************************************************************)
(* RedditService: the access token and the feed request                    *)
(***************************************************************************)
\* The wall clock stops after this many steps of five minutes.
MaxTicks == 3

\* The calls of fetch_top_memes made on one RedditService.
MaxCalls == 2

\* timedelta(seconds=auth_data["expires_in"] - 300)
Margin == 300

\* What the token endpoint may answer: a failure status, or a JSON object
\* that holds an access_token and an expires_in, or lacks one or both
\* (expires_in is optional in an OAuth 2.0 token response).
TokenResponses ==
    [status_ok : BOOLEAN,
     access_token : {None, Str("token-a"), Str("token-b")},
     expires_in : {None, IntOf(Margin), IntOf(2 * Margin)}]

NoEnsure == [some |-> FALSE, at |-> 0, token |-> None, issued |-> None, exchanged |-> FALSE]

NoExchange ==
    [some |-> FALSE, ok |-> FALSE, attempts |-> 0,
     token_before |-> None, expiry_before |-> None,
     token_after |-> None, expiry_after |-> None]

NoFeedRequest == [some |-> FALSE, call |-> 0, token |-> None, checked_at |-> 0, expiry |-> None]

\* RedditService(): no session, no token, no expiry. The other fields are
\* history: the last ensure_valid_token, the last exchange, the last feed
\* request, the complete exchange that issued the cached token, and how the
\* call in progress ended.
NewService ==
    [handler |-> "reddit", pc |-> "new", trigger |-> "", calls |-> 0,
     access_token |-> None, token_expiry |-> None,
     issued |-> None, ensure |-> NoEnsure, exchange |-> NoExchange,
     feed |-> NoFeedRequest, result |-> ""]

\* not self.access_token or not self.token_expiry or now >= self.token_expiry
NeedsRefresh(s, t) ==
    IF ~Truthy(s.access_token) THEN TRUE
    ELSE IF s.token_expiry = None THEN TRUE
    ELSE t >= s.token_expiry.val

\* ensure_valid_token at time t, up to the await of the exchange.
EnsureValidToken(s, t) ==
    LET checked == [some |-> TRUE, at |-> t, token |-> s.access_token,
                    issued |-> s.issued, exchanged |-> NeedsRefresh(s, t)]
    IN IF NeedsRefresh(s, t)
       THEN [s EXCEPT !.pc = "exchanging", !.ensure = checked,
                      !.exchange = [NoExchange EXCEPT !.attempts = 1]]
       ELSE [s EXCEPT !.ensure = checked, !.exchange = NoExchange]

\* The exception of the call in progress: out of __aenter__ the service is
\* never handed to the caller, out of fetch_top_memes it stays usable.
Raised(s) ==
    [s EXCEPT !.pc = IF s.trigger = "aenter" THEN "done" ELSE "ready",
              !.result = "raised"]

\* session.get(url, headers=self.get_headers(), params=params) at time t.
FeedRequested(s, t, checked_at) ==
    [s EXCEPT !.pc = "requesting",
              !.feed = [some |-> TRUE, call |-> s.calls, token |-> s.access_token,
                        checked_at |-> checked_at, expiry |-> s.token_expiry]]

\* The exchange has ended well: __aenter__ returns self, fetch_top_memes
\* goes on to its feed request.
Exchanged(s, t) ==
    IF s.trigger = "aenter" THEN [s EXCEPT !.pc = "ready", !.result = "returned"]
    ELSE FeedRequested(s, t, t)

\* refresh_access_token when the answer r of the token endpoint arrives at
\* time t: raise_for_status(), then access_token is assigned, then expires_in
\* is read and token_expiry assigned; what raises is logged and raised again.
Refreshed(s, r, t) ==
    LET attempt == [s.exchange EXCEPT !.some = TRUE,
                                      !.token_before = s.access_token,
                                      !.expiry_before = s.token_expiry,
                                      !.token_after = s.access_token,
                                      !.expiry_after = s.token_expiry]
    IN IF ~r.status_ok \/ r.access_token = None
       THEN Raised([s EXCEPT !.exchange = attempt])
       ELSE IF r.expires_in = None
       THEN Raised([s EXCEPT !.access_token = r.access_token,
                             !.exchange = [attempt EXCEPT !.token_after = r.access_token]])
       ELSE LET expiry == IntOf(t + r.expires_in.val - Margin)
            IN Exchanged([s EXCEPT !.access_token = r.access_token,
                                   !.token_expiry = expiry,
                                   !.issued = [at |-> t, expires_in |-> r.expires_in.val],
                                   !.exchange = [attempt EXCEPT !.ok = TRUE,
                                                                !.token_after = r.access_token,
                                                                !.expiry_after = expiry]],
                         t)

\* async with RedditService(): __init__ and __aenter__ up to the first await.
ServiceEnter ==
    /\ CallOver
    /\ call' = EnsureValidToken([NewService EXCEPT !.trigger = "aenter"], wall)
    /\ UNCHANGED <<memes, clock, walk, page, env, ingested, wall>>

\* The token endpoint answers, or the request fails.
ServiceExchange ==
    /\ call.handler = "reddit" /\ call.pc = "exchanging"
    /\ \E r \in TokenResponses : call' = Refreshed(call, r, wall)
    /\ UNCHANGED <<memes, clock, walk, page, env, ingested, wall>>

\* fetch_top_memes up to its first await: the exchange, or the feed request.
ServiceFetch ==
    /\ call.handler = "reddit" /\ call.pc = "ready" /\ call.calls < MaxCalls
    /\ LET s == EnsureValidToken([call EXCEPT !.trigger = "fetch", !.calls = @ + 1,
                                              !.result = ""], wall)
       IN call' = IF s.pc = "exchanging" THEN s ELSE FeedRequested(s, wall, wall)
    /\ UNCHANGED <<memes, clock, walk, page, env, ingested, wall>>

\* The feed answers: fetch_top_memes returns the memes or raises.
ServiceFeedResponse ==
    /\ call.handler = "reddit" /\ call.pc = "requesting"
    /\ \E ok \in BOOLEAN :
         call' = [call EXCEPT !.pc = "ready",
                              !.result = IF ok THEN "returned" ELSE "raised"]
    /\ UNCHANGED <<memes, clock, walk, page, env, ingested, wall>>

\* __aexit__: the session is closed.
ServiceExit ==
    /\ call.handler = "reddit" /\ call.pc = "ready"
    /\ call' = [call EXCEPT !.pc = "done"]
    /\ UNCHANGED <<memes, clock, walk, page, env, ingested, wall>>

\* Five minutes pass while the service waits or is idle.
ServiceTick ==
    /\ call.handler = "reddit" /\ call.pc \in {"exchanging", "requesting", "ready"}
    /\ wall < MaxTicks * 300
    /\ wall' = wall + 300
    /\ UNCHANGED <<memes, clock, walk, page, env, call, ingested>>

InitToken ==
    /\ memes = {}
    /\ clock = 1000000
    /\ walk = IdleWalk
    /\ page = NoPage
    /\ env = DefaultEnv
    /\ call = IdleCall
    /\ ingested = NothingIngested
    /\ wall = 0

NextToken ==
    \/ ServiceEnter \/ ServiceExchange \/ ServiceFetch
    \/ ServiceFeedResponse \/ ServiceExit \/ ServiceTick

SpecToken == InitToken /\ [][NextToken]_vars

----
\* C1: the table holds exactly one row for every reddit_id a successful
\* GET /memes/top call ingested and none for the others, every field of the row
\* that the feed supplies is the one of the latest batch that held the
\* reddit_id, and a batch ingested again leaves the table as it was.
UpsertLatest ==
    /\ \A rid \in RedditIds :
          Cardinality({r \in memes : r.reddit_id = rid}) =
             IF ingested[rid] = None THEN 0 ELSE 1
    /\ \A r \in memes : \A k \in FeedKeys : r[k] = ingested[r.reddit_id][k]
    /\ (call.handler = "top" /\ call.pc = "done" /\ call.status = 200) =>
          LET again == StoreLoop(OpenSession(memes), call.body)
          IN /\ again.new = <<>>
             /\ Commit(memes, again, clock, <<>>, TRUE) = [ok |-> TRUE, table |-> memes]

UpsertLatestWitness ==
    /\ call.handler = "top" /\ call.pc = "done" /\ call.status = 200
    /\ \E r \in call.before : \E q \in memes :
          /\ q.id = r.id /\ q.reddit_id = r.reddit_id
          /\ q.score # r.score /\ q.title # r.title
          /\ q.created_at = r.created_at
    /\ Cardinality(memes) = Cardinality(call.before)

\* C9: a GET /memes/top call that fails (the fetch, the loop over the batch,
\* a duplicate reddit_id in the batch, the commit) answers 500 and leaves the table as it was before the
\* call; one that succeeds has every record of the batch it returns in the
\* table.
TopAllOrNothing ==
    (call.handler = "top" /\ call.pc = "done") =>
        /\ call.failure \in {"fetch", "store", "duplicate", "commit"} <=> call.status = 500
        /\ call.status # 200 => memes = call.before
        /\ call.status = 200 =>
              \A i \in 1..Len(call.body) :
                 \E r \in memes :
                    /\ r.reddit_id = call.body[i].reddit_id
                    /\ \A k \in FeedKeys :
                          r[k] = Latest(ingested, call.body)[r.reddit_id][k]

TopAllOrNothingWitness ==
    /\ call.handler = "top" /\ call.pc = "done"
    /\ call.status = 500 /\ call.failure = "commit"
    /\ memes = call.before
    /\ \E i, j \in 1..Len(call.body) :
          /\ \E r \in memes : r.reddit_id = call.body[i].reddit_id /\ r.score # call.body[i].score
          /\ \A r \in memes : r.reddit_id # call.body[j].reddit_id

----
\* Whether the body or the environment holds a value for a credential.
Available(body, environ, field, variable) ==
    \/ RequestOf(body).credentials # None /\ Truthy(RequestOf(body).credentials[field])
    \/ Truthy(environ[variable])

BothAvailable(body, environ) ==
    /\ Available(body, environ, "bot_token", "TELEGRAM_BOT_TOKEN")
    /\ Available(body, environ, "chat_id", "TELEGRAM_CHAT_ID")

ReportAnswered == call.handler = "report" /\ call.response.status \notin {0, 422}

SendEvents == {"sendMessage", "sendPhoto", "send_failed"}

\* C6: a send-report request with no bot_token or no chat_id, in the body or
\* in the environment, is answered 400, with no feed fetch and no delivery.
MissingCredentialsIs400 ==
    (ReportAnswered /\ ~BothAvailable(call.body, env)) =>
        /\ call.response.status = 400
        /\ call.task = "none"
        /\ call.log \in {<<>>, <<"HTTPException400">>}

\* C7: the delivery uses the environment's credentials when the body carries
\* none and the body's when it carries them, a value is used for each of the
\* two whenever the body or the environment has one, and using_env_credentials
\* tells whether the environment's values are the ones used.
CredentialFallback ==
    (call.handler = "report" /\ call.response.status # 422) =>
        /\ BothAvailable(call.body, env) =>
              (call.pc # "done" \/ call.response.status = 200)
        /\ call.response.status = 200 =>
              /\ Truthy(call.service.bot_token) /\ Truthy(call.service.chat_id)
              /\ RequestOf(call.body).credentials = None =>
                    /\ call.service.bot_token = env.TELEGRAM_BOT_TOKEN
                    /\ call.service.chat_id = env.TELEGRAM_CHAT_ID
              /\ RequestOf(call.body).credentials # None =>
                    /\ call.service.bot_token = RequestOf(call.body).credentials.bot_token
                    /\ call.service.chat_id = RequestOf(call.body).credentials.chat_id
              /\ call.response.using_env_credentials <=>
                    /\ call.service.bot_token = env.TELEGRAM_BOT_TOKEN
                    /\ call.service.chat_id = env.TELEGRAM_CHAT_ID

\* C8: when the health check has answered, both checks have run, the answer
\* is 503 and "degraded" exactly when one of them failed, a failed component
\* is "unhealthy", the others (the api always) are "healthy", none "unknown".
HealthDegradation ==
    (call.handler = "health" /\ call.pc = "done") =>
        /\ call.ran = {"reddit_api", "database"}
        /\ call.http = IF call.failed # {} THEN 503 ELSE 200
        /\ call.health_status.status = IF call.failed # {} THEN "degraded" ELSE "healthy"
        /\ call.health_status.components.api.status = "healthy"
        /\ \A component \in {"reddit_api", "database"} :
              call.health_status.components[component].status =
                 IF component \in call.failed THEN "unhealthy" ELSE "healthy"

HealthDegradationWitness ==
    /\ call.handler = "health" /\ call.pc = "done"
    /\ call.failed = {"reddit_api"}
    /\ call.http = 503
    /\ call.health_status.components.database.status = "healthy"

\* C10: the acknowledgement of send-report follows the feed fetch, every
\* Telegram request of the report follows the acknowledgement, the
\* acknowledgement stays what it was whatever the delivery does, and a failed
\* fetch is answered with an error and starts no delivery.
ReportOrder ==
    call.handler = "report" =>
        /\ \A i \in 1..Len(call.log) :
              /\ call.log[i] = "ack" => \E j \in 1..(i - 1) : call.log[j] = "fetched"
              /\ call.log[i] \in SendEvents => \E j \in 1..(i - 1) : call.log[j] = "ack"
        /\ call.task # "none" => call.response = AckResponse(RequestOf(call.body))
        /\ (\E i \in 1..Len(call.log) : call.log[i] = "fetch_failed") =>
              /\ call.response.status = 500
              /\ call.task = "none"
              /\ \A i \in 1..Len(call.log) : call.log[i] \notin SendEvents \cup {"ack"}

ReportOrderWitness ==
    /\ call.handler = "report" /\ call.pc = "done"
    /\ call.task = "failed"
    /\ \E i \in 1..Len(call.log) : call.log[i] = "sendPhoto"
    /\ call.response.status = 200

----
\* C2: a walk that has ended (has_next false) has returned every row of the
\* table exactly once, in the requested order.
PaginationComplete ==
    walk.pc = "done" =>
        /\ Len(walk.got) = Cardinality(memes)
        /\ {walk.got[i] : i \in 1..Len(walk.got)} = memes
        /\ \A i, j \in 1..Len(walk.got) :
              i < j => InOrder(walk.got[i][walk.sort_by], walk.got[j][walk.sort_by],
                               walk.order)

\* C3: the call that carries an issued cursor bounds its query by exactly the
\* sort value of the last item of the page that issued the cursor.
CursorRoundTrip ==
    (walk.pc \in {"more", "done", "failed"} /\ walk.sent.some) =>
        /\ page.status = 200
        /\ page.where
        /\ page.bound = walk.sent.val

CursorRoundTripWitness ==
    /\ walk.pc \in {"more", "done"}
    /\ walk.sent.some
    /\ walk.sort_by = "created_at"
    /\ walk.sent.val % 1000000 # 0
    /\ page.bound = walk.sent.val

\* C4: a sort_by outside the allow-list is answered 400 and runs no query.
BadSortFieldIs400 ==
    (/\ page.status # 0
     /\ page.req.sort_by \notin valid_sort_fields
     /\ page.req.limit \in MinLimit..MaxLimitAllowed
     /\ page.req.order \in OrderPattern) =>
        (page.status = 400 /\ ~page.queried)

\* C5: a cursor that cannot be decoded is answered 400, never 5xx.
BadCursorIs400 ==
    (/\ page.status # 0
     /\ page.req.cursor.tag \in {"not_base64", "not_json", "json_list"}
     /\ page.req.limit \in MinLimit..MaxLimitAllowed
     /\ page.req.sort_by \in SortByPattern
     /\ page.req.order \in OrderPattern) =>
        page.status = 400

----
\* C11: a scheduled run of send_scheduled_report never lets an exception
\* leave the job, whichever step fails (RedditService() without its client
\* credentials, the feed fetch, a Telegram request): the failure is logged and
\* the job returns; when TELEGRAM_BOT_TOKEN or TELEGRAM_CHAT_ID is missing
\* from the environment the run returns having fetched nothing and sent
\* nothing; and a run that failed is not started again: every run starts at a
\* fire time of the trigger, one run for each fire time.
ScheduledRunContained ==
    call.handler = "scheduled" =>
        /\ call.outcome \in {"running", "sent", "returned", "logged"}
        /\ (call.pc = "done") = (call.outcome # "running")
        /\ (env.TELEGRAM_BOT_TOKEN = None \/ env.TELEGRAM_CHAT_ID = None) =>
              /\ call.outcome = "returned"
              /\ \A i \in 1..Len(call.log) :
                    call.log[i] \notin {"fetch", "sendMessage", "sendPhoto"}
        /\ call.runs = 1
        /\ OnTheHour(call.fired_at) /\ Hour(call.fired_at) \in ScheduledHours
        /\ call.fired_at <= wall

\* A run whose Telegram delivery failed after the overview message, an hour
\* or more ago, and that has not been started again.
ScheduledRunContainedWitness ==
    /\ call.handler = "scheduled" /\ call.outcome = "logged"
    /\ \E i \in 1..Len(call.log) : call.log[i] = "sendMessage"
    /\ call.log[Len(call.log)] = "send_failed"
    /\ wall >= call.fired_at + 3600

----
\* The exchange of ensure_valid_token happens exactly when no token is cached
\* or the time is at or past the time of issue + expires_in - 300 seconds.
ExchangedWhenDue ==
    call.ensure.some =>
        call.ensure.exchanged =
            IF call.ensure.token = None \/ call.ensure.issued = None THEN TRUE
            ELSE call.ensure.at >=
                    call.ensure.issued.at + call.ensure.issued.expires_in - Margin

\* A failed exchange was attempted once, left the token and the expiry as
\* they were, and the call that triggered it raised without a feed request.
FailedExchangeContained ==
    (call.exchange.some /\ ~call.exchange.ok) =>
        /\ call.exchange.attempts = 1
        /\ call.exchange.token_after = call.exchange.token_before
        /\ call.exchange.expiry_after = call.exchange.expiry_before
        /\ call.result = "raised"
        /\ call.pc \in {"ready", "done"}
        /\ (call.feed.some => call.feed.call # call.calls)

\* The feed request carries a token that was before its margin when checked.
FeedTokenFresh ==
    call.feed.some =>
        /\ call.feed.token # None
        /\ call.feed.expiry # None
        /\ call.feed.checked_at < call.feed.expiry.val

\* C12: ensure_valid_token exchanges exactly when no token is cached or the
\* time is at or past (time of issue + expires_in - 300 seconds); a failed
\* exchange is attempted once, leaves the cached token and expiry unchanged
\* and fails the call that triggered it; every feed request of
\* fetch_top_memes carries a token for which the time was before that margin
\* when it was checked.
TokenDiscipline ==
    call.handler = "reddit" =>
        ExchangedWhenDue /\ FailedExchangeContained /\ FeedTokenFresh

====
